---- MODULE Spec2Model ----
(***************************************************************************)
(* Model of the GRU encoder/decoder forecaster (src/fr.py) and of its      *)
(* command-line driver (src/main.py).                                      *)
(*                                                                         *)
(* Numbers.  Losses are rationals [num, den]: a mean of an empty list is   *)
(* numpy's NaN, [num |-> 0, den |-> 0]; the scheduler's initial best is    *)
(* +inf, [num |-> 1, den |-> 0].  Learning rates are integers in units of  *)
(* 1e-3 / 512000, in which every halving down to the floor is exact.       *)
(* Tensors are terms of a free algebra, written in prefix notation as flat *)
(* sequences of tokens, so two tensors are equal only when they were       *)
(* computed the same way.  Parameters are version numbers: the number of   *)
(* optimizer updates applied to them.                                      *)
(***************************************************************************)
EXTENDS Integers, Sequences, FiniteSets, TLC

VARIABLES
    pc,               \* position of the process
    operation,        \* args.operation
    force_new,        \* FR.force_new
    shape_ok,         \* whether the data reshapes into (steps, batch, dimensions)
    fs,               \* the checkpoint directory: entry name -> entry
    raised,           \* kind of the exception in flight or caught, "none" if none
    stdout,           \* what the top level printed last
    exit_status,      \* exit status of the process, -1 while it runs
    cfg,              \* hyper parameters and batch source sizes
    net,              \* encoder/decoder parameters, gradients, optimizers, op log
    sched,            \* both ReduceLROnPlateau schedulers
    epoch,            \* self.epoch
    batch_number,     \* batch_number of the running phase of _do_epoch
    batch_losses,     \* batch_losses
    batch_val_losses, \* batch_val_losses
    epoch_loss,       \* self.epoch_loss
    epoch_val_loss,   \* self.epoch_val_loss
    learning_rate,    \* value returned by _do_epoch
    all_val_losses,   \* all_val_losses of fit_generator
    history,          \* records handed to write_history
    forward,          \* result of the last Decoder.forward
    log               \* observations: what happened in the running epoch

vars == <<pc, operation, force_new, shape_ok, fs, raised, stdout, exit_status,
          cfg, net, sched, epoch, batch_number, batch_losses, batch_val_losses,
          epoch_loss, epoch_val_loss, learning_rate, all_val_losses, history,
          forward, log>>

mainVars == <<operation, force_new, shape_ok, raised, stdout, exit_status>>

----------------------------------------------------------------------------
(* Bounds of the model *)

MaxEpochs == 4
MaxLoss == 3
MaxOutputSteps == 2
MaxExtra == 1

(* Program constants *)

\* min_lr = 3e-6 of both schedulers, in learning-rate units
MinLr == 1536
\* ReduceLROnPlateau's default eps = 1e-8 (5.12 units): a reduction is applied
\* only when old - new > eps
LrEps == 5
\* ReduceLROnPlateau's default relative threshold 1e-4, as 9999 / 10000
ThresholdNum == 9999
ThresholdDen == 10000

\* 'lr': 1e-3, with the two other rates the checks name: 5e-4 and 4e-6
Lr1em3 == 512000
Lr5em4 == Lr1em3 \div 2
Lr4em6 == (4 * Lr1em3) \div 1000

----------------------------------------------------------------------------
(* Rationals, NaN and +inf *)

NaN == [num |-> 0, den |-> 0]
Inf == [num |-> 1, den |-> 0]

IsNaN(a) == a.den = 0 /\ a.num = 0
IsInf(a) == a.den = 0 /\ a.num # 0

\* Python's a < b on floats: false when either side is NaN
Less(a, b) ==
    IF IsNaN(a) \/ IsNaN(b) THEN FALSE
    ELSE IF IsInf(a) THEN FALSE
    ELSE IF IsInf(b) THEN TRUE
    ELSE a.num * b.den < b.num * a.den

RECURSIVE SumNum(_)
SumNum(s) == IF s = <<>> THEN 0 ELSE Head(s).num + SumNum(Tail(s))

\* np.mean of a list of losses that share one denominator; NaN for []
Mean(s) ==
    IF s = <<>> THEN NaN
    ELSE [num |-> SumNum(s), den |-> Head(s).den * Len(s)]

\* Python's min(list): keeps the first element unless a later one is smaller
RECURSIVE PyMinFrom(_, _)
PyMinFrom(m, s) ==
    IF s = <<>> THEN m
    ELSE PyMinFrom(IF Less(Head(s), m) THEN Head(s) ELSE m, Tail(s))

PyMin(s) == PyMinFrom(Head(s), Tail(s))

Max(a, b) == IF a >= b THEN a ELSE b
Min(a, b) == IF a <= b THEN a ELSE b

----------------------------------------------------------------------------
(* Tensors: terms in prefix notation *)

\* nn.GRU on one step: the output of the step, and the new hidden state
GruOut(x, h) == <<"gru_out">> \o x \o h
GruState(x, h) == <<"gru_h">> \o x \o h
\* nn.Linear
Linear(o) == <<"linear">> \o o

\* encoder_inputs[-1] viewed as (1, batch, dimensions), and the encoder's
\* final hidden state computed from torch.randn initial states
FirstInput == <<"encoder_inputs[-1]">>
EncoderStates == <<"encoder_gru_h">>

\* the loop without line 108: every iteration is fed the seed
RECURSIVE DecoderLoopSeedOnly(_, _, _, _, _)
DecoderLoopSeedOnly(j, output_steps, next_input, states, acc) ==
    IF j >= output_steps
    THEN [predictions |-> acc.predictions, states |-> states,
          inputs |-> acc.inputs, hiddens |-> acc.hiddens]
    ELSE LET decoder_gru_out == GruOut(next_input, states)
             new_states == GruState(next_input, states)
             decoder_output == Linear(decoder_gru_out)
         IN DecoderLoopSeedOnly(j + 1, output_steps, next_input, new_states,
                [predictions |-> Append(acc.predictions, decoder_output),
                 inputs |-> Append(acc.inputs, next_input),
                 hiddens |-> Append(acc.hiddens, states)])

\* Decoder.forward, the body of `for j in range(self.output_steps)`.  inputs
\* and hiddens record what each iteration was fed.
RECURSIVE DecoderLoop(_, _, _, _, _)
DecoderLoop(j, output_steps, next_input, states, acc) ==
    IF j >= output_steps
    THEN [predictions |-> acc.predictions, states |-> states,
          inputs |-> acc.inputs, hiddens |-> acc.hiddens]
    ELSE LET decoder_gru_out == GruOut(next_input, states)
             new_states == GruState(next_input, states)
             decoder_output == Linear(decoder_gru_out)
         IN DecoderLoop(j + 1, output_steps, decoder_output, new_states,
                [predictions |-> Append(acc.predictions, decoder_output),
                 inputs |-> Append(acc.inputs, next_input),
                 hiddens |-> Append(acc.hiddens, states)])

NoForward == [predictions |-> <<>>, states |-> <<>>, inputs |-> <<>>, hiddens |-> <<>>]

DecoderForward(next_input, states, output_steps) ==
    DecoderLoop(0, output_steps, next_input, states, NoForward)

----------------------------------------------------------------------------
(* Modules and optimizers *)

\* optimizer.zero_grad()
ZeroGrad(n, who) ==
    [n EXCEPT ![who].grad = "zero", !.ops = Append(@, <<who, "zero_grad">>)]

\* loss.backward(): populates the gradients of both modules
Backward(n) ==
    [n EXCEPT !.encoder.grad = "set", !.decoder.grad = "set",
              !.ops = Append(@, <<"loss", "backward">>)]

\* optimizer.step(): Adam updates the parameters that have a gradient
OptStep(n, who) ==
    IF n[who].grad = "set"
    THEN [n EXCEPT ![who].params = @ + 1, ![who].opt_steps = @ + 1,
                   !.ops = Append(@, <<who, "step">>)]
    ELSE [n EXCEPT !.ops = Append(@, <<who, "step">>)]

RECURSIVE SumSeq(_)
SumSeq(s) == IF s = <<>> THEN 0 ELSE Head(s) + SumSeq(Tail(s))

\* _do_batch: encoder, decoder, then one loss_fct call per zip(predictions,
\* targets) pair; ls are the values loss_fct returns
DoBatch(n, ls) ==
    LET fwd == DecoderForward(FirstInput, EncoderStates, cfg.output_steps)
        pairs == Min(Len(fwd.predictions), cfg.output_steps)
        calls == [i \in 1..pairs |-> <<"loss_fct", "call">>]
    IN [net |-> [n EXCEPT !.ops = @ \o calls],
        forward |-> fwd,
        calls |-> pairs,
        loss |-> SumSeq(SubSeq(ls, 1, pairs))]

----------------------------------------------------------------------------
(* ReduceLROnPlateau(mode='min', factor=gamma, patience=plateau, min_lr=3e-6) *)

\* is_better: a < best * (1 - threshold)
IsBetter(a, best) ==
    IF IsNaN(a) THEN FALSE
    ELSE IF IsInf(best) THEN TRUE
    ELSE a.num * best.den * ThresholdDen < best.num * ThresholdNum * a.den

\* _reduce_lr
ReduceLr(lr) ==
    LET new_lr == Max((lr * cfg.gamma_num) \div cfg.gamma_den, MinLr)
    IN IF lr - new_lr > LrEps THEN new_lr ELSE lr

\* scheduler.step with num_bad_epochs >= patience
SchedulerStepEarly(s, lr, metrics) ==
    LET better == IsBetter(metrics, s.best)
        best == IF better THEN metrics ELSE s.best
        bad == IF better THEN 0 ELSE s.num_bad_epochs + 1
    IN IF bad >= cfg.plateau
       THEN [s |-> [best |-> best, num_bad_epochs |-> 0], lr |-> ReduceLr(lr)]
       ELSE [s |-> [best |-> best, num_bad_epochs |-> bad], lr |-> lr]

\* scheduler.step(metrics): the new scheduler state and learning rate
SchedulerStep(s, lr, metrics) ==
    LET better == IsBetter(metrics, s.best)
        best == IF better THEN metrics ELSE s.best
        bad == IF better THEN 0 ELSE s.num_bad_epochs + 1
    IN IF bad > cfg.plateau
       THEN [s |-> [best |-> best, num_bad_epochs |-> 0], lr |-> ReduceLr(lr)]
       ELSE [s |-> [best |-> best, num_bad_epochs |-> bad], lr |-> lr]

\* next_learning_rate stepping the encoder scheduler with the validation loss
NextLearningRateMixed(n, sc, metric) ==
    LET d == SchedulerStep(sc.decoder, n.decoder.lr, metric)
        e == SchedulerStep(sc.encoder, n.encoder.lr, Mean(batch_val_losses))
    IN [net |-> [n EXCEPT !.decoder.lr = d.lr, !.encoder.lr = e.lr],
        sched |-> [decoder |-> d.s, encoder |-> e.s],
        fed |-> [decoder |-> metric, encoder |-> Mean(batch_val_losses)]]

\* next_learning_rate: decoder scheduler, then encoder scheduler, both with
\* the epoch's training loss
NextLearningRate(n, sc, metric) ==
    LET d == SchedulerStep(sc.decoder, n.decoder.lr, metric)
        e == SchedulerStep(sc.encoder, n.encoder.lr, metric)
    IN [net |-> [n EXCEPT !.decoder.lr = d.lr, !.encoder.lr = e.lr],
        sched |-> [decoder |-> d.s, encoder |-> e.s],
        fed |-> [decoder |-> metric, encoder |-> metric]]

\* current_learning_rate
CurrentLearningRate(n) == n.decoder.lr

----------------------------------------------------------------------------
(* Batch source (Seq2SeqGenerators) *)

\* the step counts rounded up instead of down
TrainStepsRoundedUp == (cfg.train_samples + cfg.batch_size - 1) \div cfg.batch_size

\* int(self.generators.train_samples // self.generators.batch_size)
TrainSteps == cfg.train_samples \div cfg.batch_size
ValidSteps == cfg.valid_samples \div cfg.batch_size

\* Number of batches generate_train() / generate_valid() yield when iterated:
\* the batches of the split's samples, and possibly more
TrainYield == TrainSteps + cfg.extra
ValidYield == ValidSteps + cfg.extra

----------------------------------------------------------------------------
(* State after construction and _build_model *)

\* an entry of the checkpoint directory: nothing, a file holding data, or a
\* sub-directory holding the files named in `has`
NoData == <<"none", -1>>
NoEntry == [kind |-> "absent", has |-> {}, data |-> NoData]
FileEntry(d) == [kind |-> "file", has |-> {}, data |-> d]
DirEntry(inside) == [kind |-> "dir", has |-> inside, data |-> NoData]
\* a blob left by an earlier run
OldBlob == FileEntry(<<"old", -1>>)

Names == {"encoder", "decoder", "old"}
EmptyDir == [f \in Names |-> NoEntry]

\* Encoder / Decoder with a fresh Adam optimizer at lr = learning_rate
Module(lr) == [params |-> 0, grad |-> "none", opt_steps |-> 0, lr |-> lr]
\* a fresh ReduceLROnPlateau
Scheduler == [best |-> Inf, num_bad_epochs |-> 0]

BuildModel(lr) ==
    [net |-> [encoder |-> Module(lr), decoder |-> Module(lr), ops |-> <<>>],
     sched |-> [encoder |-> Scheduler, decoder |-> Scheduler]]

EpochLog ==
    [train_batches |-> 0, train_loss_calls |-> 0, train_discarded |-> 0,
     enc_updates |-> 0, dec_updates |-> 0,
     valid_batches |-> 0, valid_loss_calls |-> 0, valid_discarded |-> 0,
     sched_steps |-> 0]

RunLog ==
    [this |-> EpochLog,
     epochs_started |-> 0,
     epochs_done |-> 0,
     saves |-> <<>>,
     fed |-> <<>>,
     at_end |-> <<>>,
     early_checks |-> 0,
     stopped |-> FALSE,
     reported |-> FALSE,
     prepare |-> [called |-> FALSE, before |-> EmptyDir, after |-> EmptyDir,
                  raised |-> "none"]]

\* the fields every initial state shares
InitModel(c) ==
    /\ cfg = c
    /\ net = BuildModel(c.lr).net
    /\ sched = BuildModel(c.lr).sched
    /\ epoch = -1
    /\ batch_number = 1
    /\ batch_losses = <<>>
    /\ batch_val_losses = <<>>
    /\ epoch_loss = NaN
    /\ epoch_val_loss = NaN
    /\ learning_rate = c.lr
    /\ all_val_losses = <<>>
    /\ history = <<>>
    /\ forward = NoForward
    /\ log = RunLog
    /\ raised = "none"
    /\ exit_status = -1

Config(e, ts, vs, os, x, tl, vl, lr, pl) ==
    [epochs |-> e, train_samples |-> ts, valid_samples |-> vs, batch_size |-> 2,
     output_steps |-> os, extra |-> x, train_loss_max |-> tl, valid_loss_max |-> vl,
     lr |-> lr, gamma_num |-> 1, gamma_den |-> 2, plateau |-> pl]

\* long runs that vary the validation loss
GatingConfigs ==
    {Config(e, 2, 2, 1, 1, 0, MaxLoss, Lr1em3, 2) : e \in {MaxEpochs}}
\* long runs that vary the training loss
PlateauConfigs ==
    {Config(MaxEpochs, 2, 2, 1, 1, MaxLoss, 0, lr, pl) :
        lr \in {Lr1em3, Lr4em6}, pl \in {0, 2}}
\* short runs that vary the shape of the epoch
ShapeConfigs ==
    {Config(e, ts, vs, os, x, 1, 1, Lr1em3, 0) :
        e \in 1..2, ts \in {1, 3, 4}, vs \in {1, 2, 5}, os \in {1, MaxOutputSteps},
        x \in {0, MaxExtra}}

Configs == GatingConfigs \cup PlateauConfigs \cup ShapeConfigs

\* runs of every length that vary the stop signal and the validation loss
TerminationConfigs ==
    {Config(e, ts, vs, 1, x, 0, 1, Lr1em3, 2) :
        e \in 1..MaxEpochs, ts \in {2, 4}, vs \in {1, 2}, x \in 0..MaxExtra}

\* fit_generator is entered with an empty checkpoint directory
InitFit(configs) ==
    /\ pc = "fit"
    /\ operation = "train"
    /\ force_new = FALSE
    /\ shape_ok = TRUE
    /\ fs = EmptyDir
    /\ stdout = <<"Running">>
    /\ \E c \in configs : InitModel(c)

Init == InitFit(Configs)

----------------------------------------------------------------------------
(* _build_checkpoint *)

\* os.listdir(checkpoint_dir), in one of its orders
NameOrder == <<"decoder", "encoder", "old">>
IsPresent(dir, f) == dir[f].kind # "absent"

\* os.path.isfile(os.path.join(f_path, blob)) for the entry f of the directory
IsFileUnder(dir, f, blob) == dir[f].kind = "dir" /\ blob \in dir[f].has

\* os.remove(f_path): removes a file, raises on a directory
Remove(dir, f) ==
    IF dir[f].kind = "dir"
    THEN [raised |-> "IsADirectoryError", fs |-> dir]
    ELSE [raised |-> "none", fs |-> [dir EXCEPT ![f] = NoEntry]]

\* the loop of lines 116-123 over the entries still to visit
RECURSIVE BuildCheckpointLoop(_, _, _)
BuildCheckpointLoop(todo, dir, force) ==
    IF todo = <<>> THEN [raised |-> "none", fs |-> dir]
    ELSE LET f == Head(todo)
         IN IF ~IsPresent(dir, f) THEN BuildCheckpointLoop(Tail(todo), dir, force)
            ELSE IF IsFileUnder(dir, f, "encoder") \/ IsFileUnder(dir, f, "decoder")
            THEN IF force
                 THEN LET r == Remove(dir, f)
                      IN IF r.raised # "none" THEN r
                         ELSE BuildCheckpointLoop(Tail(todo), r.fs, force)
                 ELSE [raised |-> "FileExistsError", fs |-> dir]
            ELSE BuildCheckpointLoop(Tail(todo), dir, force)

BuildCheckpoint(dir, force) == BuildCheckpointLoop(NameOrder, dir, force)

----------------------------------------------------------------------------
(* fit_generator and _do_epoch *)

\* `for epoch in range(self.epochs)`: the next epoch starts; _do_epoch
\* computes the step counts and enters the training phase
StartEpoch ==
    /\ pc = "fit"
    /\ epoch + 1 < cfg.epochs
    /\ epoch' = epoch + 1
    /\ batch_losses' = <<>>
    /\ batch_number' = 1
    /\ log' = [log EXCEPT !.this = EpochLog, !.epochs_started = @ + 1]
    /\ pc' = "train"
    /\ UNCHANGED <<mainVars, fs, cfg, net, sched, batch_val_losses, epoch_loss,
                   epoch_val_loss, learning_rate, all_val_losses, history, forward>>

\* the epoch budget is exhausted
LoopExhausted ==
    /\ pc = "fit"
    /\ epoch + 1 >= cfg.epochs
    /\ pc' = "report"
    /\ UNCHANGED <<mainVars, fs, cfg, net, sched, epoch, batch_number, batch_losses,
                   batch_val_losses, epoch_loss, epoch_val_loss, learning_rate,
                   all_val_losses, history, forward, log>>

\* one training batch: lines 175-182
TrainStep(n, ls) ==
    LET z == ZeroGrad(ZeroGrad([n EXCEPT !.ops = <<>>], "encoder"), "decoder")
        b == DoBatch(z, ls)
        u == OptStep(OptStep(Backward(b.net), "decoder"), "encoder")
    IN [net |-> u, forward |-> b.forward, calls |-> b.calls, loss |-> b.loss]

TrainBatch ==
    /\ pc = "train"
    /\ shape_ok
    /\ batch_number <= TrainYield
    /\ ~(batch_number > TrainSteps)
    /\ \E ls \in [1..cfg.output_steps -> 0..cfg.train_loss_max] :
         LET r == TrainStep(net, ls)
         IN /\ net' = r.net
            /\ forward' = r.forward
            /\ batch_losses' = Append(batch_losses,
                                      [num |-> r.loss, den |-> cfg.output_steps])
            /\ log' = [log EXCEPT
                 !.this.train_batches = @ + 1,
                 !.this.train_loss_calls = @ + r.calls,
                 !.this.enc_updates = @ + (r.net.encoder.opt_steps - net.encoder.opt_steps),
                 !.this.dec_updates = @ + (r.net.decoder.opt_steps - net.decoder.opt_steps)]
    /\ batch_number' = batch_number + 1
    /\ UNCHANGED <<pc, mainVars, fs, cfg, sched, epoch, batch_val_losses, epoch_loss,
                   epoch_val_loss, learning_rate, all_val_losses, history>>

\* a batch beyond train_steps was pulled: break
TrainBreak ==
    /\ pc = "train"
    /\ batch_number <= TrainYield
    /\ batch_number > TrainSteps
    /\ log' = [log EXCEPT !.this.train_discarded = @ + 1]
    /\ batch_val_losses' = <<>>
    /\ batch_number' = 1
    /\ pc' = "valid"
    /\ UNCHANGED <<mainVars, fs, cfg, net, sched, epoch, batch_losses, epoch_loss,
                   epoch_val_loss, learning_rate, all_val_losses, history, forward>>

\* generate_train() is exhausted: the for loop ends
TrainExhausted ==
    /\ pc = "train"
    /\ batch_number > TrainYield
    /\ batch_val_losses' = <<>>
    /\ batch_number' = 1
    /\ pc' = "valid"
    /\ UNCHANGED <<mainVars, fs, cfg, net, sched, epoch, batch_losses, epoch_loss,
                   epoch_val_loss, learning_rate, all_val_losses, history, forward,
                   log>>

\* a validation batch that trains
ValidStepTraining(n, ls) == TrainStep(n, ls)

\* one validation batch under torch.no_grad(): lines 191-193
ValidStep(n, ls) ==
    LET b == DoBatch([n EXCEPT !.ops = <<>>], ls)
    IN [net |-> b.net, forward |-> b.forward, calls |-> b.calls, loss |-> b.loss]

ValidBatch ==
    /\ pc = "valid"
    /\ shape_ok
    /\ batch_number <= ValidYield
    /\ ~(batch_number > ValidSteps)
    /\ \E ls \in [1..cfg.output_steps -> 0..cfg.valid_loss_max] :
         LET r == ValidStep(net, ls)
         IN /\ net' = r.net
            /\ forward' = r.forward
            /\ batch_val_losses' = Append(batch_val_losses,
                                          [num |-> r.loss, den |-> cfg.output_steps])
            /\ log' = [log EXCEPT
                 !.this.valid_batches = @ + 1,
                 !.this.valid_loss_calls = @ + r.calls,
                 !.this.enc_updates = @ + (r.net.encoder.opt_steps - net.encoder.opt_steps),
                 !.this.dec_updates = @ + (r.net.decoder.opt_steps - net.decoder.opt_steps)]
    /\ batch_number' = batch_number + 1
    /\ UNCHANGED <<pc, mainVars, fs, cfg, sched, epoch, batch_losses, epoch_loss,
                   epoch_val_loss, learning_rate, all_val_losses, history>>

ValidBreak ==
    /\ pc = "valid"
    /\ batch_number <= ValidYield
    /\ batch_number > ValidSteps
    /\ log' = [log EXCEPT !.this.valid_discarded = @ + 1]
    /\ pc' = "means"
    /\ UNCHANGED <<mainVars, fs, cfg, net, sched, epoch, batch_number, batch_losses,
                   batch_val_losses, epoch_loss, epoch_val_loss, learning_rate,
                   all_val_losses, history, forward>>

ValidExhausted ==
    /\ pc = "valid"
    /\ batch_number > ValidYield
    /\ pc' = "means"
    /\ UNCHANGED <<mainVars, fs, cfg, net, sched, epoch, batch_number, batch_losses,
                   batch_val_losses, epoch_loss, epoch_val_loss, learning_rate,
                   all_val_losses, history, forward, log>>

\* lines 196-198: the means, then next_learning_rate
EndEpoch ==
    /\ pc = "means"
    /\ epoch_loss' = Mean(batch_losses)
    /\ epoch_val_loss' = Mean(batch_val_losses)
    /\ LET r == NextLearningRate(net, sched, Mean(batch_losses))
       IN /\ net' = r.net
          /\ sched' = r.sched
          /\ learning_rate' = CurrentLearningRate(r.net)
          /\ log' = [log EXCEPT !.this.sched_steps = @ + 1,
                                !.epochs_done = @ + 1,
                                !.fed = Append(@, r.fed),
                                !.at_end = Append(@, [encoder |-> <<"encoder", net.encoder.params>>,
                                                      decoder |-> <<"decoder", net.decoder.params>>])]
    /\ pc' = "ckpt"
    /\ UNCHANGED <<mainVars, fs, cfg, epoch, batch_number, batch_losses,
                   batch_val_losses, all_val_losses, history, forward>>

\* save_weights: torch.save of both state dicts into the checkpoint directory
StateDict(n, who) == <<who, n[who].params>>

\* save_weights writing the encoder blob only
SaveEncoderOnly(dir, n) ==
    [dir EXCEPT !["encoder"] = FileEntry(StateDict(n, "encoder"))]

SaveWeights(dir, n) ==
    [dir EXCEPT !["encoder"] = FileEntry(StateDict(n, "encoder")),
                !["decoder"] = FileEntry(StateDict(n, "decoder"))]

\* line 208 with >= in place of >
ImprovedOrEqual(losses, val_loss) ==
    Len(losses) = 0 \/ ~Less(PyMin(losses), val_loss)

\* line 208
Improved(losses, val_loss) ==
    Len(losses) = 0 \/ Less(val_loss, PyMin(losses))

\* lines 208-212: checkpoint decision, all_val_losses, write_history
Checkpoint ==
    /\ pc = "ckpt"
    /\ IF Improved(all_val_losses, epoch_val_loss)
       THEN /\ fs' = SaveWeights(fs, net)
            /\ log' = [log EXCEPT !.saves = Append(@, epoch + 1)]
       ELSE UNCHANGED <<fs, log>>
    /\ all_val_losses' = Append(all_val_losses, epoch_val_loss)
    /\ history' = Append(history, [epoch |-> epoch, loss |-> epoch_loss,
                                   val_loss |-> epoch_val_loss,
                                   learning_rate |-> learning_rate])
    /\ pc' = "early"
    /\ UNCHANGED <<mainVars, cfg, net, sched, epoch, batch_number, batch_losses,
                   batch_val_losses, epoch_loss, epoch_val_loss, learning_rate,
                   forward>>

\* lines 216-217 without the break
EarlyStoppingIgnored ==
    /\ pc = "early"
    /\ \E stop \in BOOLEAN :
         /\ log' = [log EXCEPT !.early_checks = @ + 1, !.stopped = stop]
         /\ pc' = "fit"
    /\ UNCHANGED <<mainVars, fs, cfg, net, sched, epoch, batch_number, batch_losses,
                   batch_val_losses, epoch_loss, epoch_val_loss, learning_rate,
                   all_val_losses, history, forward>>

\* lines 216-217: the stopping policy answers stop or continue
EarlyStopping ==
    /\ pc = "early"
    /\ \E stop \in BOOLEAN :
         /\ log' = [log EXCEPT !.early_checks = @ + 1, !.stopped = stop]
         /\ pc' = IF stop THEN "report" ELSE "fit"
    /\ UNCHANGED <<mainVars, fs, cfg, net, sched, epoch, batch_number, batch_losses,
                   batch_val_losses, epoch_loss, epoch_val_loss, learning_rate,
                   all_val_losses, history, forward>>

\* line 218: the best epoch is printed and fit_generator returns
Report ==
    /\ pc = "report"
    /\ log' = [log EXCEPT !.reported = TRUE]
    /\ pc' = "returned"
    /\ UNCHANGED <<mainVars, fs, cfg, net, sched, epoch, batch_number, batch_losses,
                   batch_val_losses, epoch_loss, epoch_val_loss, learning_rate,
                   all_val_losses, history, forward>>

Next ==
    \/ StartEpoch
    \/ LoopExhausted
    \/ TrainBatch
    \/ TrainBreak
    \/ TrainExhausted
    \/ ValidBatch
    \/ ValidBreak
    \/ ValidExhausted
    \/ EndEpoch
    \/ Checkpoint
    \/ EarlyStopping
    \/ Report

Spec == Init /\ [][Next]_vars

----------------------------------------------------------------------------
(* main.py *)

MainConfigs ==
    {Config(e, ts, 2, 1, x, 1, 1, Lr1em3, 0) :
        e \in 1..2, ts \in 1..2, x \in 0..MaxExtra}

\* what the checkpoint directory may hold when the program starts
FsChoices ==
    {[f \in Names |-> IF f = "old" THEN o ELSE IF f = "encoder" THEN e ELSE d] :
        e \in {NoEntry, OldBlob}, d \in {NoEntry, OldBlob},
        o \in {NoEntry, DirEntry({}), DirEntry({"encoder"}),
               DirEntry({"encoder", "decoder"})}}

InitMain ==
    /\ pc = "main"
    /\ operation \in {"train", "predict"}
    /\ force_new \in BOOLEAN
    /\ shape_ok \in BOOLEAN
    /\ fs \in FsChoices
    /\ stdout = <<>>
    /\ \E c \in MainConfigs : InitModel(c)

modelVars == <<cfg, net, sched, epoch, batch_number, batch_losses, batch_val_losses,
               epoch_loss, epoch_val_loss, learning_rate, all_val_losses, history,
               forward>>

\* os.path.isfile(os.path.join(checkpoint_dir, blob))
IsFile(dir, blob) == dir[blob].kind = "file"

\* lines 46-51: train, or both blobs are there; otherwise exit(1)
MainCheck ==
    /\ pc = "main"
    /\ IF operation = "train" \/ (IsFile(fs, "encoder") /\ IsFile(fs, "decoder"))
       THEN /\ stdout' = <<"Running">>
            /\ pc' = "try"
            /\ UNCHANGED exit_status
       ELSE /\ stdout' = <<"[ERROR]">>
            /\ exit_status' = 1
            /\ pc' = "exited"
    /\ UNCHANGED <<operation, force_new, shape_ok, raised, fs, modelVars, log>>

\* lines 53-55: the model is constructed, which prepares the checkpoint
\* directory, and fit_generator is entered
TrainModel ==
    /\ pc = "try"
    /\ operation = "train"
    /\ LET r == BuildCheckpoint(fs, force_new)
       IN /\ fs' = r.fs
          /\ raised' = r.raised
          /\ pc' = IF r.raised = "none" THEN "fit" ELSE "except"
          /\ log' = [log EXCEPT !.prepare = [called |-> TRUE, before |-> fs,
                                             after |-> r.fs, raised |-> r.raised]]
    /\ UNCHANGED <<operation, force_new, shape_ok, stdout, exit_status, modelVars>>

\* the batch does not reshape into (steps, batch_size, dimensions): the
\* view in _do_batch raises, after the gradients were zeroed in training
ForwardRaises ==
    /\ ~shape_ok
    /\ \/ /\ pc = "train"
          /\ batch_number <= TrainYield
          /\ ~(batch_number > TrainSteps)
          /\ net' = ZeroGrad(ZeroGrad([net EXCEPT !.ops = <<>>], "encoder"), "decoder")
       \/ /\ pc = "valid"
          /\ batch_number <= ValidYield
          /\ ~(batch_number > ValidSteps)
          /\ net' = net
    /\ raised' = "RuntimeError"
    /\ pc' = "except"
    /\ UNCHANGED <<operation, force_new, shape_ok, stdout, exit_status, fs, cfg,
                   sched, epoch, batch_number, batch_losses, batch_val_losses,
                   epoch_loss, epoch_val_loss, learning_rate, all_val_losses,
                   history, forward, log>>

\* load_weights: torch.load of both blobs
LoadWeights(dir) ==
    IF IsFile(dir, "encoder") /\ IsFile(dir, "decoder")
    THEN "none" ELSE "FileNotFoundError"

\* lines 56-68: predict_model loads the weights and runs the test batches
PredictModel ==
    /\ pc = "try"
    /\ operation = "predict"
    /\ raised' = IF LoadWeights(fs) # "none" THEN LoadWeights(fs)
                 ELSE IF ~shape_ok THEN "RuntimeError" ELSE "none"
    /\ pc' = IF raised' = "none" THEN "end" ELSE "except"
    /\ UNCHANGED <<operation, force_new, shape_ok, stdout, exit_status, fs,
                   modelVars, log>>

\* lines 69-71: print(f'{error_type}: {e}')
Handler ==
    /\ pc = "except"
    /\ stdout' = <<raised, ": ", "message">>
    /\ pc' = "end"
    /\ UNCHANGED <<operation, force_new, shape_ok, raised, exit_status, fs,
                   modelVars, log>>

\* the script runs off its end: exit status 0
MainEnd ==
    /\ pc \in {"returned", "end"}
    /\ exit_status' = 0
    /\ pc' = "exited"
    /\ UNCHANGED <<operation, force_new, shape_ok, raised, stdout, fs, modelVars,
                   log>>

NextMain ==
    \/ MainCheck
    \/ TrainModel
    \/ ForwardRaises
    \/ PredictModel
    \/ Handler
    \/ MainEnd
    \/ Next

SpecMain == InitMain /\ [][NextMain]_vars


----------------------------------------------------------------------------
(* Checkpoint gating *)

Range(q) == {q[i] : i \in 1..Len(q)}

\* the loss of epoch k is strictly below the loss of every earlier epoch
BelowAllBefore(losses, k) == \A j \in 1..(k - 1) : Less(losses[k], losses[j])

\* C1: save_weights is called at the end of epoch k if and only if k is the
\* first epoch or the epoch's mean validation loss is strictly less than the
\* mean validation loss of every previous epoch (an equal loss does not
\* save); so the losses 3, 1, 2, 0 save at epochs 1, 2 and 4 only.
C1_SaveIffImproved ==
    /\ \A k \in Range(log.saves) : k \in 1..Len(all_val_losses)
    /\ \A k \in 1..Len(all_val_losses) :
         (k \in Range(log.saves)) <=> (k = 1 \/ BelowAllBefore(all_val_losses, k))
    /\ \A i \in 1..Len(log.saves), j \in 1..Len(log.saves) :
         i < j => log.saves[i] < log.saves[j]

Loss(v) == [num |-> v, den |-> 1]

C1_Witness ==
    /\ all_val_losses = <<Loss(3), Loss(1), Loss(2), Loss(0)>>
    /\ log.saves = <<1, 2, 4>>

\* the earliest epoch whose loss no other completed epoch undercuts
BestEpoch(losses) ==
    CHOOSE e \in 1..Len(losses) :
        /\ \A j \in 1..Len(losses) : ~Less(losses[j], losses[e])
        /\ \A d \in 1..(e - 1) : \E j \in 1..Len(losses) : Less(losses[j], losses[d])

\* C9: once an epoch has completed, the checkpoint directory holds a matched
\* pair: the encoder blob and the decoder blob are the parameters of the two
\* modules as they were at the end of one and the same epoch, the earliest
\* epoch with the least mean validation loss so far; the batches of later
\* epochs leave the pair as it is.
C9_MatchedBestPair ==
    Len(all_val_losses) >= 1 =>
        LET e == BestEpoch(all_val_losses)
        IN /\ fs["encoder"] = FileEntry(log.at_end[e].encoder)
           /\ fs["decoder"] = FileEntry(log.at_end[e].decoder)
           /\ log.at_end[e].encoder[1] = "encoder"
           /\ log.at_end[e].decoder[1] = "decoder"

C9_Witness ==
    /\ Len(all_val_losses) >= 2
    /\ BestEpoch(all_val_losses) = 1
    /\ pc = "valid"
    /\ log.this.train_batches >= 1
    /\ fs["encoder"].data # StateDict(net, "encoder")
    /\ fs["decoder"].data # StateDict(net, "decoder")

----------------------------------------------------------------------------
(* The phases of an epoch *)

TrainFloor == cfg.train_samples \div cfg.batch_size
ValidFloor == cfg.valid_samples \div cfg.batch_size

LossCalls(k) == [i \in 1..k |-> <<"loss_fct", "call">>]

\* what one training batch does, in order
TrainOps(k) ==
    <<(<<"encoder", "zero_grad">>), (<<"decoder", "zero_grad">>)>>
    \o LossCalls(k)
    \o <<(<<"loss", "backward">>), (<<"decoder", "step">>), (<<"encoder", "step">>)>>

\* the training phase of the running epoch is over and no validation batch
\* has run yet
TrainingJustOver == pc = "valid" /\ log.this.valid_batches = 0

\* C4: given a training source that yields at least floor(train_samples /
\* batch_size) batches, every epoch processes exactly that many training
\* batches and discards one further pulled batch unprocessed; each processed
\* batch zeroes both gradients, calls the loss function output_steps times,
\* runs backward and steps the decoder optimizer and then the encoder
\* optimizer once each.
C4_ExactTrainBatches ==
    TrainYield >= TrainFloor =>
        /\ pc = "train" =>
             /\ log.this.train_batches = batch_number - 1
             /\ log.this.train_batches <= TrainFloor
             /\ log.this.train_discarded = 0
        /\ pc \in {"valid", "means", "ckpt", "early"} =>
             /\ log.this.train_batches = TrainFloor
             /\ log.this.train_loss_calls = TrainFloor * cfg.output_steps
             /\ log.this.train_discarded = IF TrainYield > TrainFloor THEN 1 ELSE 0
        /\ (pc = "train" \/ TrainingJustOver) =>
             /\ log.this.train_loss_calls = log.this.train_batches * cfg.output_steps
             /\ log.this.enc_updates = log.this.train_batches
             /\ log.this.dec_updates = log.this.train_batches
             /\ net.encoder.opt_steps = (log.epochs_started - 1) * TrainFloor
                                          + log.this.train_batches
             /\ net.decoder.opt_steps = net.encoder.opt_steps
             /\ net.encoder.params = net.encoder.opt_steps
             /\ net.decoder.params = net.decoder.opt_steps
             /\ log.this.train_batches >= 1 => net.ops = TrainOps(cfg.output_steps)

C4_Witness ==
    /\ TrainingJustOver
    /\ cfg.train_samples = 4 /\ cfg.batch_size = 2 /\ cfg.output_steps = 2
    /\ cfg.epochs = 1
    /\ log.this.train_batches = 2
    /\ log.this.train_loss_calls = 4
    /\ log.this.train_discarded = 1
    /\ log.this.enc_updates = 2 /\ log.this.dec_updates = 2

Trainable(m) == [params |-> m.params, grad |-> m.grad, opt_steps |-> m.opt_steps]

C5_State ==
    /\ pc = "valid" =>
         /\ log.this.train_batches = TrainFloor
         /\ log.this.valid_batches = batch_number - 1
         /\ log.this.valid_batches <= ValidFloor
    /\ pc \in {"means", "ckpt", "early"} =>
         /\ log.this.valid_batches = ValidFloor
         /\ log.this.valid_loss_calls = ValidFloor * cfg.output_steps
    /\ pc \in {"valid", "means"} =>
         /\ log.this.enc_updates = TrainFloor
         /\ log.this.dec_updates = TrainFloor
         /\ log.this.sched_steps = 0
         /\ log.this.valid_batches >= 1 => net.ops = LossCalls(cfg.output_steps)

C5_Step ==
    /\ pc = "valid" => net'.encoder = net.encoder /\ net'.decoder = net.decoder
    /\ pc = "means" => /\ Trainable(net'.encoder) = Trainable(net.encoder)
                       /\ Trainable(net'.decoder) = Trainable(net.decoder)

\* C5: the validation phase starts only after the last training batch of the
\* epoch, processes exactly floor(valid_samples / batch_size) batches, and
\* from the end of the training phase to the scheduler step no step changes
\* the parameters, the gradients or the optimizers of either module.
C5_ValidationFrame == [](C5_State) /\ [][C5_Step]_vars

C5_Witness ==
    /\ pc = "means"
    /\ log.this.valid_batches = 2
    /\ log.this.valid_discarded = 1
    /\ log.this.train_batches >= 1
    /\ net.encoder.grad = "set"

\* C8: Decoder.forward runs exactly output_steps iterations and returns
\* output_steps predictions in step order; iteration 1 is fed the seed input,
\* every later iteration the projection of the one before, with the hidden
\* state handed from each iteration to the next; with output_steps = 1 the
\* one prediction is the projection of the seed.
C8_Autoregression ==
    forward # NoForward =>
        LET n == cfg.output_steps
        IN /\ Len(forward.predictions) = n
           /\ Len(forward.inputs) = n
           /\ Len(forward.hiddens) = n
           /\ forward.inputs[1] = FirstInput
           /\ forward.hiddens[1] = EncoderStates
           /\ \A j \in 1..n :
                /\ forward.predictions[j]
                     = Linear(GruOut(forward.inputs[j], forward.hiddens[j]))
                /\ j > 1 => /\ forward.inputs[j] = forward.predictions[j - 1]
                            /\ forward.hiddens[j]
                                 = GruState(forward.inputs[j - 1], forward.hiddens[j - 1])
           /\ forward.states = GruState(forward.inputs[n], forward.hiddens[n])
           /\ n = 1 => forward.predictions = <<Linear(GruOut(FirstInput, EncoderStates))>>

C8_Witness ==
    /\ cfg.output_steps = 2
    /\ Len(forward.predictions) = 2
    /\ forward.inputs[2] = forward.predictions[1]
    /\ forward.inputs[2] # FirstInput

----------------------------------------------------------------------------
(* Learning rates *)

\* epoch k of the training losses m brought no improvement: its loss is not
\* strictly below the loss of every earlier epoch (a NaN never improves)
Stalled(m, k) == IsNaN(m[k]) \/ ~BelowAllBefore(m, k)

\* the first epoch that completes three stalled epochs in a row, Len(m) + 1
\* when there is none
FirstDrop(m) ==
    LET hits == {k \in 3..Len(m) : Stalled(m, k - 2) /\ Stalled(m, k - 1) /\ Stalled(m, k)}
    IN IF hits = {} THEN Len(m) + 1
       ELSE CHOOSE k \in hits : \A h \in hits : k <= h

TrainLosses == [k \in 1..Len(history) |-> history[k].loss]

EpochDone == pc \in {"ckpt", "early", "fit", "report", "returned"} /\ log.epochs_started >= 1

\* C6: each epoch feeds its mean training loss, not its validation loss, to
\* both schedulers exactly once, after the validation phase; with gamma 0.5,
\* plateau 2 and starting rate 1e-3 the rate stays 1e-3 until three epochs in
\* a row have stalled and is 5e-4 from that epoch on (for the three epochs a
\* further drop needs); the rate never increases and is never below min_lr.
C6_PlateauSchedule ==
    /\ Len(log.fed) = log.epochs_done
    /\ log.this.sched_steps = IF EpochDone THEN 1 ELSE 0
    /\ pc \in {"ckpt", "early"} =>
         /\ epoch_loss = Mean(batch_losses)
         /\ log.fed[Len(log.fed)] = [decoder |-> epoch_loss, encoder |-> epoch_loss]
    /\ \A k \in 1..Len(history) :
         log.fed[k] = [decoder |-> history[k].loss, encoder |-> history[k].loss]
    /\ net.decoder.lr >= MinLr /\ net.encoder.lr >= MinLr /\ learning_rate >= MinLr
    /\ net.decoder.lr <= cfg.lr /\ net.encoder.lr <= cfg.lr
    /\ \A k \in 1..Len(history) :
         /\ history[k].learning_rate <= (IF k = 1 THEN cfg.lr ELSE history[k - 1].learning_rate)
         /\ learning_rate <= history[k].learning_rate
    /\ (cfg.lr = Lr1em3 /\ cfg.gamma_num = 1 /\ cfg.gamma_den = 2 /\ cfg.plateau = 2) =>
         \A k \in 1..Len(history) :
            /\ k < FirstDrop(TrainLosses) => history[k].learning_rate = Lr1em3
            /\ (FirstDrop(TrainLosses) <= k /\ k < FirstDrop(TrainLosses) + 3)
                  => history[k].learning_rate = Lr5em4

C6_Witness ==
    /\ cfg.lr = Lr1em3 /\ cfg.gamma_num = 1 /\ cfg.gamma_den = 2 /\ cfg.plateau = 2
    /\ Len(history) = 4
    /\ history[1].loss = Loss(2) /\ history[1].val_loss = Loss(0)
    /\ FirstDrop(TrainLosses) = 4
    /\ history[3].learning_rate = Lr1em3
    /\ history[4].learning_rate = Lr5em4
    /\ learning_rate = Lr5em4

\* C10: in every state the encoder optimizer's learning rate is the decoder
\* optimizer's, the two schedulers are in the same state, and the rate that
\* current_learning_rate / next_learning_rate return is the encoder's rate.
C10_SameRate ==
    /\ net.encoder.lr = net.decoder.lr
    /\ sched.encoder = sched.decoder
    /\ CurrentLearningRate(net) = net.encoder.lr
    /\ learning_rate = net.encoder.lr

C10_Witness ==
    /\ log.epochs_done >= 2
    /\ net.encoder.lr < cfg.lr
    /\ net.encoder.lr = net.decoder.lr
    /\ epoch_loss # epoch_val_loss

----------------------------------------------------------------------------
(* Termination of fit_generator *)

\* the program runs on as long as it has a next step
SpecFair == InitFit(TerminationConfigs) /\ [][Next]_vars /\ WF_vars(Next)

C7_State ==
    /\ log.epochs_started <= cfg.epochs
    /\ epoch + 1 = log.epochs_started
    /\ log.epochs_done = log.epochs_started
                           - (IF pc \in {"train", "valid", "means"} THEN 1 ELSE 0)
    /\ Len(history) = log.epochs_done - (IF pc = "ckpt" THEN 1 ELSE 0)
    /\ Len(all_val_losses) = Len(history)
    /\ log.early_checks = Len(history) - (IF pc = "early" THEN 1 ELSE 0)
    /\ log.stopped => pc \in {"report", "returned"}
    /\ pc \in {"report", "returned"} =>
         /\ log.stopped \/ log.epochs_started = cfg.epochs
         /\ log.early_checks = log.epochs_started
    /\ log.reported <=> pc = "returned"

C7_Step ==
    log.stopped =>
        /\ UNCHANGED <<epoch, net, sched, fs, history, all_val_losses, batch_number,
                       batch_losses, batch_val_losses>>
        /\ log'.epochs_started = log.epochs_started
        /\ log'.saves = log.saves
        /\ log'.early_checks = log.early_checks
        /\ log'.this = log.this

\* C7: fit_generator terminates; it starts at most `epochs` epochs, consults
\* the stopping policy once per completed epoch, after the epoch's checkpoint
\* decision and history record; after a stop signal no epoch, batch, save or
\* history write follows; the loop ends with the budget exhausted or at the
\* first stop signal, and then the best epoch is reported.
C7_Terminates == [](C7_State) /\ [][C7_Step]_vars /\ <>(pc = "returned")

C7_Witness ==
    /\ pc = "returned"
    /\ log.stopped
    /\ log.epochs_started = 2
    /\ cfg.epochs = 4
    /\ log.early_checks = 2
    /\ Len(history) = 2

----------------------------------------------------------------------------
(* Preparing the checkpoint directory, and the top level's error report *)

HoldsBlob(dir) ==
    \E f \in Names : \/ (f \in {"encoder", "decoder"} /\ dir[f].kind = "file")
                     \/ IsFileUnder(dir, f, "encoder")
                     \/ IsFileUnder(dir, f, "decoder")

\* C2: _build_checkpoint on a directory that holds a file named encoder
\* raises FileExistsError when force_new is false, and with force_new removes
\* the stale blob and returns; on a directory without any encoder or decoder
\* blob it returns and deletes nothing.
C2_PrepareGuardsBlobs ==
    log.prepare.called =>
        LET before == log.prepare.before
            after == log.prepare.after
        IN /\ (before["encoder"].kind = "file" /\ ~force_new)
                => log.prepare.raised = "FileExistsError"
           /\ (before["encoder"].kind = "file" /\ force_new)
                => log.prepare.raised = "none" /\ after["encoder"].kind = "absent"
           /\ ~HoldsBlob(before)
                => log.prepare.raised = "none" /\ after = before

\* C3: when the train or predict operation raised, the top level has printed
\* '{kind}: {message}' and the process ends with a non-zero exit status.
C3_ErrorsExitNonZero ==
    (pc = "exited" /\ raised # "none") =>
        /\ stdout = <<raised, ": ", "message">>
        /\ exit_status # 0

====
